---- MODULE Spec2Model ----
(***************************************************************************)
(* Coin Maker server (src/server.js): token creation, sale creation, sale  *)
(* confirmation against chain evidence, and balance transfer, over a       *)
(* document store with the collections tokens, sales, balances, history.   *)
(*                                                                         *)
(* Every `await` of a handler is a scheduling point, so a handler is a     *)
(* chain of actions, one per await, and the requests of different slots    *)
(* interleave at these points.                                             *)
(*                                                                         *)
(* Numbers.  JavaScript numbers are modelled as exact decimals with nine   *)
(* fractional digits, held in three limbs of base 10^9:                    *)
(*     value = g * 10^9 + u + n * 10^-9      (0 <= u, n < 10^9)            *)
(* so that 10^-7 (the amount tolerance), 10 (a cost), 10^12 and 2 * 10^12  *)
(* (raw chain values) are all exact and no intermediate exceeds 2^31.      *)
(* Binary floating-point rounding error is not modelled.                   *)
(***************************************************************************)
EXTENDS Integers, Sequences, FiniteSets, Bags, TLC

Giga == 1000000000

Num(g, u, n) == [g |-> g, u |-> u, n |-> n]
Zero == Num(0, 0, 0)

\* Whole units and nano units as numbers.
Units(k) == Num(0, k, 0)
Nanos(k) == Num(0, 0, k)

Add(x, y) ==
  LET n  == x.n + y.n
      cn == n \div Giga
      u  == x.u + y.u + cn
      cu == u \div Giga
  IN  Num(x.g + y.g + cu, u % Giga, n % Giga)

Sub(x, y) ==
  LET n  == x.n - y.n
      bn == IF n < 0 THEN 1 ELSE 0
      u  == x.u - y.u - bn
      bu == IF u < 0 THEN 1 ELSE 0
  IN  Num(x.g - y.g - bu, u + bu * Giga, n + bn * Giga)

Lt(x, y) ==
  \/ x.g < y.g
  \/ x.g = y.g /\ x.u < y.u
  \/ x.g = y.g /\ x.u = y.u /\ x.n < y.n

Geq(x, y) == ~Lt(x, y)
Gt(x, y) == Lt(y, x)
Leq(x, y) == ~Lt(y, x)

\* x * k for a natural k, by doubling (no limb product is ever formed).
RECURSIVE MulInt(_, _)
MulInt(x, k) ==
  IF k = 0 THEN Zero
  ELSE LET h == MulInt(x, k \div 2)
           d == Add(h, h)
       IN  IF k % 2 = 0 THEN d ELSE Add(d, x)

\* x / 200 rounded to nine fractional digits, ties upward, as
\* Number.prototype.toFixed(9) rounds a non-negative number.
\* 10^9 / 200 = 5000000, so each limb's remainder moves down exactly.
DivRound200(x) ==
  LET n == (x.u % 200) * 5000000 + (x.n + 100) \div 200
      u == (x.g % 200) * 5000000 + x.u \div 200 + n \div Giga
  IN  Num(x.g \div 200 + u \div Giga, u % Giga, n % Giga)

(***************************************************************************)
(* Values of the requests' and the chain client's JSON.                    *)
(***************************************************************************)

\* A JSON value read as a number: absent (undefined or null), a number, a
\* numeric string, or a non-numeric string.
Absent == [kind |-> "absent", num |-> Zero]
JNum(x) == [kind |-> "num", num |-> x]
JStr(x) == [kind |-> "str", num |-> x]
JBad == [kind |-> "bad", num |-> Zero]

\* JavaScript truthiness: undefined, null, 0 and NaN are falsy; every
\* non-empty string (also "0") is truthy.
Truthy(v) ==
  CASE v.kind = "absent" -> FALSE
    [] v.kind = "num" -> v.num # Zero
    [] OTHER -> TRUE

\* Number(v) is NaN exactly for a non-numeric string (and undefined).
IsNaN(v) == v.kind = "bad"

\* Number(v) of a number or a numeric string.
NumberOf(v) == v.num

OneE12 == Num(1000, 0, 0)

\* A variant of parseTonValue that never rescales.
parseTonValueNoScale(v) ==
  IF v.kind = "absent" THEN Zero
  ELSE IF IsNaN(v) THEN Zero
  ELSE NumberOf(v)

\* src/server.js:42-49.  n / 1e9 moves every limb down one place; the limb
\* below 10^-9 is dropped (it cannot change a comparison against a number
\* of nine fractional digits).
parseTonValue(v) ==
  IF v.kind = "absent" THEN Zero
  ELSE IF IsNaN(v) THEN Zero
  ELSE IF Gt(NumberOf(v), OneE12) THEN Num(0, NumberOf(v).g, NumberOf(v).u)
  ELSE NumberOf(v)

\* Addresses are sequences of one-character strings; <<>> is the empty
\* string, which `a || ''` also yields for null and undefined.
UpperCase == <<"A","B","C","D","E","F","G","H","I","J","K","L","M",
               "N","O","P","Q","R","S","T","U","V","W","X","Y","Z">>
LowerCase == <<"a","b","c","d","e","f","g","h","i","j","k","l","m",
               "n","o","p","q","r","s","t","u","v","w","x","y","z">>
Digits == {"0","1","2","3","4","5","6","7","8","9"}

IsAlnum(c) ==
  \/ c \in Digits
  \/ \E i \in 1..26 : c = UpperCase[i] \/ c = LowerCase[i]

toLowerCase(c) ==
  IF \E i \in 1..26 : c = UpperCase[i]
  THEN LowerCase[CHOOSE i \in 1..26 : c = UpperCase[i]]
  ELSE c

\* src/server.js:50
normalizeAddr(a) ==
  LET kept == SelectSeq(a, IsAlnum)
  IN  [i \in 1..Len(kept) |-> toLowerCase(kept[i])]

NoAddr == <<>>
NoHash == "none"

NoTime == -1

\* A chain transaction as the handler reads it.  in_value, in_source are
\* in_msg.value and in_msg.source || in_msg.source_address (absent when the
\* transaction has no in_msg); value, source are tx.value, tx.source; utime
\* is the timestamp tx.utime (tx.time when utime is missing), NoTime when
\* the transaction carries none; id is
\* tx.id || tx.hash || (tx.in_msg && tx.in_msg.hash) || null.
Tx(id, inValue, inSource, value, source, utime) ==
  [id |-> id, in_value |-> inValue, in_source |-> inSource,
   value |-> value, source |-> source, utime |-> utime]

\* src/server.js:196 and 222: the amount tolerance 0.0000001.
Epsilon == Nanos(100)

\* src/server.js:191-194 and 219-221
txValue(tx) ==
  IF Truthy(tx.in_value) THEN parseTonValue(tx.in_value)
  ELSE IF Truthy(tx.value) THEN parseTonValue(tx.value)
  ELSE Zero

\* A variant of okAmount without the tolerance.
okAmountStrict(val, cost) == Geq(val, cost)

\* src/server.js:196 and 222
okAmount(val, cost) == Geq(val, Sub(cost, Epsilon))

\* src/server.js:197
okSender(sender, buyer) ==
  IF sender # NoAddr THEN normalizeAddr(sender) = normalizeAddr(buyer)
  ELSE TRUE

\* src/server.js:189-199: the verdict of the direct-hash path on a returned
\* transaction.
DirectCheck(tx, cost, buyer) ==
  LET val == txValue(tx)
      sender == IF tx.in_source # NoAddr THEN tx.in_source ELSE NoAddr
  IN  [accept |-> okAmount(val, cost) /\ okSender(sender, buyer),
       foundAmount |-> val, sender |-> sender]

Day == 86400

\* src/server.js:215: tx.utime || tx.time || 0
utimeOf(tx) == IF tx.utime = NoTime THEN 0 ELSE tx.utime

\* src/server.js:217
tooOld(utime, now) == utime # 0 /\ now - utime > Day

\* src/server.js:224
scanSender(tx) ==
  IF tx.in_source # NoAddr THEN tx.in_source
  ELSE IF tx.source # NoAddr THEN tx.source
  ELSE NoAddr

\* src/server.js:213-229: the index in txs of the matched transaction, 0
\* when none matches.  Both branches of the sender test end the loop with
\* this transaction matched.
RECURSIVE scanFrom(_, _, _, _, _)
scanFrom(txs, i, cost, buyer, now) ==
  IF i > Len(txs) THEN 0
  ELSE IF tooOld(utimeOf(txs[i]), now) THEN scanFrom(txs, i + 1, cost, buyer, now)
  ELSE IF okAmount(txValue(txs[i]), cost)
       THEN IF scanSender(txs[i]) = NoAddr
               \/ normalizeAddr(scanSender(txs[i])) = normalizeAddr(buyer)
            THEN i
            ELSE i
       ELSE scanFrom(txs, i + 1, cost, buyer, now)

ScanMatch(txs, cost, buyer, now) == scanFrom(txs, 1, cost, buyer, now)

(***************************************************************************)
(* Bounds and the inputs the requests are drawn from.                      *)
(***************************************************************************)

MaxSales == 2
MaxAmount == 2
MaxSupply == 3
MaxConfirms == 2
MaxTransfers == 1

TokenIds == {1}
SaleIds == 1..MaxSales

ConfSlots == {"c1", "c2"}
BuySlots == {"b1"}
XferSlots == {"x1"}

\* src/server.js:39: the platform wallet.
OWNER_TON_WALLET == <<"U", "Q", "A", "m">>

\* Wallets of the clients.  Alice2 is Alice written in another case and with
\* separators: the same address under normalizeAddr.
Alice == <<"E", "Q", "a", "1">>
Alice2 == <<"e", "q", "-", "A", "_", "1">>
Bob == <<"E", "Q", "b", "2">>
Seller == <<"E", "Q", "s", "3">>

Buyers == {Alice}
Holders == {Alice, Bob}

\* Chain values: 10, 9.999999 and 9.9999999 units.
Ten == Units(10)
JustBelow == Num(0, 9, 999999000)
AtTolerance == Num(0, 9, 999999900)

\* A raw value of 2 * 10^12 nano units.
TwoE12 == Num(2000, 0, 0)

\* The bodies POST /api/tokens/create is called with: a listing token of
\* price 5 owned by Seller, user tokens with the default price, with the
\* price 0.123456789 and with the price "0", and bodies that miss a field.
CreateBody(type, named, owner, totalSupply, pricePerToken, dynamicPrice) ==
  [type |-> type, named |-> named, owner |-> owner, totalSupply |-> totalSupply,
   pricePerToken |-> pricePerToken, dynamicPrice |-> dynamicPrice]

CreateBodies ==
  { CreateBody("listing", TRUE, Seller, MaxSupply, JNum(Units(5)), Absent),
    CreateBody("listing", TRUE, Seller, 0, JNum(Units(5)), Absent),
    CreateBody("listing", TRUE, Seller, MaxSupply, Absent, Absent),
    CreateBody("user", TRUE, NoAddr, 0, Absent, Absent),
    CreateBody("user", TRUE, Seller, 0, Absent, JNum(Nanos(123456789))),
    CreateBody("user", TRUE, NoAddr, 0, Absent, JStr(Zero)),
    CreateBody("user", FALSE, NoAddr, 0, Absent, Absent),
    CreateBody("", TRUE, NoAddr, 0, Absent, Absent) }

AmountInputs == -1..MaxAmount
Hashes == {"h1"}
HashInputs == {NoHash} \cup Hashes
Now == 3 * Day
Clock == {Now}

MaxList == 2

\* The lists getTransactions can answer with: in any order, with repeats.
RECURSIVE ListsUpTo(_, _)
ListsUpTo(S, k) ==
  IF k = 0 THEN {<<>>}
  ELSE LET shorter == ListsUpTo(S, k - 1)
       IN  shorter \cup {Append(l, a) : l \in {x \in shorter : Len(x) = k - 1}, a \in S}

\* What the explorer serves: txs to getTransaction, lists over recent to
\* getTransactions.
World(txs, recent) == [txs |-> txs, recent |-> recent]

\* getTransaction serves a payment of 10 from Alice, one of 9.999999 from
\* a hidden sender and one of 10 from Bob; the seller's recent transactions
\* are Alice's payment and one of 10 from Alice made two days ago.
PaidByAlice == Tx("h1", JStr(Ten), Alice2, Absent, NoAddr, Now - 10)
PaidShort == Tx("h1", JStr(JustBelow), NoAddr, Absent, NoAddr, Now - 10)
PaidByBob == Tx(NoHash, JStr(Ten), Bob, Absent, NoAddr, Now - 10)
PaidLongAgo == Tx("h1", JStr(Ten), Alice2, Absent, NoAddr, Now - 2 * Day)

SmallWorld == World({PaidByAlice, PaidShort, PaidByBob}, {PaidByAlice, PaidLongAgo})

(***************************************************************************)
(* State.                                                                  *)
(***************************************************************************)

VARIABLES
  tokens,    \* collection tokens: TokenIds -> document
  sales,     \* collection sales: SaleIds -> document
  balances,  \* collection balances: <<tokenId, address>> -> document
  history,   \* collection history: a bag of entries (ids are fresh uids)
  buy,       \* POST /api/tokens/:id/buy requests in flight
  conf,      \* POST /api/sales/:saleId/confirm requests in flight
  xfer,      \* POST /api/transfer requests in flight
  out,       \* the response the latest step sent
  chain,     \* what the chain explorer serves
  got,       \* the chain answer the latest step received
  nConf,     \* confirm requests received so far
  nXfer      \* transfer requests received so far

db == <<tokens, sales, balances, history>>
vars == <<tokens, sales, balances, history, buy, conf, xfer, out, chain, got,
          nConf, nXfer>>

NoToken ==
  [exists |-> FALSE, type |-> "", owner |-> NoAddr, totalSupply |-> 0,
   remainingSupply |-> 0, pricePerToken |-> Zero, dynamicPrice |-> Zero,
   supplyIssued |-> 0]

NoSale ==
  [exists |-> FALSE, tokenId |-> 0, buyer |-> NoAddr, seller |-> NoAddr,
   amountTokens |-> 0, cost |-> Zero, status |-> "", txHash |-> NoHash]

NoBalance == [exists |-> FALSE, amount |-> 0]

BalanceKeys == TokenIds \X Holders

Entry(type, saleId, tokenId, party, other, amount) ==
  [type |-> type, saleId |-> saleId, tokenId |-> tokenId, party |-> party,
   other |-> other, amount |-> amount]

Append1(bag, e) == bag (+) SetToBag({e})

\* A response; out holds the one the latest step sent, NoResponse when the
\* latest step sent none.
Response(op, slot, req, code, body) ==
  [op |-> op, slot |-> slot, req |-> req, code |-> code, body |-> body]

NoResponse == Response("none", "", [none |-> TRUE], 0, [ok |-> TRUE])

\* The answers of the chain client.
NoAnswer == [kind |-> "none"]
LookupFailed == [kind |-> "lookup_failed"]
LookupTx(tx) == [kind |-> "tx", tx |-> tx]
ScanUnavailable == [kind |-> "unavailable"]
ScanTxs(txs, now) == [kind |-> "txs", txs |-> txs, now |-> now]

IdleBuy ==
  [pc |-> "idle", saleId |-> 0, tokenId |-> 0, buyer |-> NoAddr,
   seller |-> NoAddr, amount |-> 0, cost |-> Zero]

\* inTry: the handler is inside the try block of lines 185-201.
IdleConf ==
  [pc |-> "idle", saleId |-> 0, txHash |-> NoHash, foundHash |-> NoHash,
   inTry |-> FALSE,
   token |-> NoToken, prev |-> 0]

IdleXfer ==
  [pc |-> "idle", tokenId |-> 0, from |-> NoAddr, to |-> NoAddr, amt |-> 0,
   have |-> 0, prev |-> 0]

Init ==
  /\ tokens = [t \in TokenIds |-> NoToken]
  /\ sales = [s \in SaleIds |-> NoSale]
  /\ balances = [k \in BalanceKeys |-> NoBalance]
  /\ history = EmptyBag
  /\ buy = [b \in BuySlots |-> IdleBuy]
  /\ conf = [r \in ConfSlots |-> IdleConf]
  /\ xfer = [x \in XferSlots |-> IdleXfer]
  /\ out = NoResponse
  /\ nConf = 0
  /\ nXfer = 0
  /\ chain = SmallWorld
  /\ got = NoAnswer

(***************************************************************************)
(* POST /api/tokens/create (src/server.js:74-95).  One await: the set.     *)
(***************************************************************************)

\* src/server.js:41: a fresh id is the least one no document or request has.
uidToken == CHOOSE t \in TokenIds : ~tokens[t].exists /\ \A u \in TokenIds : u < t => tokens[u].exists

\* src/server.js:86
DefaultPrice == Nanos(100000000)

dynamicPriceOf(v) == IF Truthy(v) THEN NumberOf(v) ELSE DefaultPrice

NewToken(type, owner, totalSupply, pricePerToken, dynamicPrice) ==
  IF type = "listing"
  THEN [exists |-> TRUE, type |-> type,
        owner |-> IF owner # NoAddr THEN owner ELSE OWNER_TON_WALLET,
        totalSupply |-> totalSupply, remainingSupply |-> totalSupply,
        pricePerToken |-> NumberOf(pricePerToken), dynamicPrice |-> Zero,
        supplyIssued |-> 0]
  ELSE [exists |-> TRUE, type |-> type,
        owner |-> IF owner # NoAddr THEN owner ELSE OWNER_TON_WALLET,
        totalSupply |-> 0, remainingSupply |-> 0, pricePerToken |-> Zero,
        dynamicPrice |-> dynamicPriceOf(dynamicPrice), supplyIssued |-> 0]

CreateToken(type, named, owner, totalSupply, pricePerToken, dynamicPrice) ==
  /\ got' = NoAnswer
  /\ UNCHANGED chain
  /\ IF type = "" \/ ~named
     THEN /\ out' = Response("create", "", CreateBody(type, named, owner, totalSupply, pricePerToken, dynamicPrice),
                           400, [error |-> "missing"])
          /\ UNCHANGED tokens
     ELSE IF type = "listing" /\ (totalSupply = 0 \/ ~Truthy(pricePerToken))
     THEN /\ out' = Response("create", "", CreateBody(type, named, owner, totalSupply, pricePerToken, dynamicPrice),
                           400, [error |-> "listing_missing"])
          /\ UNCHANGED tokens
     ELSE /\ \E t \in TokenIds : ~tokens[t].exists
          /\ tokens' = [tokens EXCEPT ![uidToken] =
                          NewToken(type, owner, totalSupply, pricePerToken, dynamicPrice)]
          /\ out' = Response("create", "", CreateBody(type, named, owner, totalSupply, pricePerToken, dynamicPrice),
                           200, [ok |-> TRUE, id |-> uidToken])
  /\ UNCHANGED <<sales, balances, history, buy, conf, xfer, nConf, nXfer>>

(***************************************************************************)
(* POST /api/tokens/:id/buy (src/server.js:102-137).                      *)
(* Awaits: the token get, the sale set, the history set.                   *)
(***************************************************************************)

TakenSaleIds ==
  {s \in SaleIds : sales[s].exists} \cup {buy[b].saleId : b \in BuySlots}

FreeSaleIds == SaleIds \ TakenSaleIds

uidSale == CHOOSE s \in FreeSaleIds : \A u \in FreeSaleIds : s <= u

\* src/server.js:113-120.  The product of an integer amount and a price of
\* nine fractional digits has nine fractional digits: toFixed(9) keeps it.
quoteCost(token, amount) ==
  IF token.type = "listing"
  THEN MulInt(token.pricePerToken, amount)
  ELSE MulInt(IF token.dynamicPrice # Zero THEN token.dynamicPrice ELSE DefaultPrice,
              amount)

\* A variant of receiver that always names the platform wallet.
receiverPlatform(token) == OWNER_TON_WALLET

\* src/server.js:114
receiver(token) == IF token.owner # NoAddr THEN token.owner ELSE OWNER_TON_WALLET

BuyReq(tokenId, buyer, amountTokens) ==
  [tokenId |-> tokenId, buyer |-> buyer, amountTokens |-> amountTokens]

BuyRespond(b, req, code, body) ==
  /\ out' = Response("buy", b, req, code, body)
  /\ buy' = [buy EXCEPT ![b] = IdleBuy]

\* The request arrives and the token document is read (lines 104-128).
BuyRead(b, tokenId, buyer, amountTokens) ==
  /\ got' = NoAnswer
  /\ UNCHANGED chain
  /\ buy[b].pc = "idle"
  /\ LET token == tokens[tokenId]
     IN  IF buyer = NoAddr \/ amountTokens = 0
         THEN BuyRespond(b, BuyReq(tokenId, buyer, amountTokens), 400, [error |-> "missing"])
         ELSE IF ~token.exists
         THEN BuyRespond(b, BuyReq(tokenId, buyer, amountTokens), 404, [error |-> "token_not_found"])
         ELSE IF amountTokens <= 0
         THEN BuyRespond(b, BuyReq(tokenId, buyer, amountTokens), 400, [error |-> "bad_amount"])
         ELSE IF token.type = "listing" /\ token.remainingSupply < amountTokens
         THEN BuyRespond(b, BuyReq(tokenId, buyer, amountTokens), 400, [error |-> "not_enough_supply"])
         ELSE /\ FreeSaleIds # {}
              /\ buy' = [buy EXCEPT ![b] =
                           [pc |-> "sale_set", saleId |-> uidSale,
                            tokenId |-> tokenId, buyer |-> buyer,
                            seller |-> receiver(token), amount |-> amountTokens,
                            cost |-> quoteCost(token, amountTokens)]]
              /\ out' = NoResponse
  /\ UNCHANGED <<tokens, sales, balances, history, conf, xfer, nConf, nXfer>>

NewSale(r) ==
  [exists |-> TRUE, tokenId |-> r.tokenId, buyer |-> r.buyer,
   seller |-> r.seller, amountTokens |-> r.amount, cost |-> r.cost,
   status |-> "pending", txHash |-> NoHash]

\* line 129
BuySaleSet(b) ==
  /\ got' = NoAnswer
  /\ UNCHANGED chain
  /\ buy[b].pc = "sale_set"
  /\ sales' = [sales EXCEPT ![buy[b].saleId] = NewSale(buy[b])]
  /\ buy' = [buy EXCEPT ![b].pc = "history"]
  /\ out' = NoResponse
  /\ UNCHANGED <<tokens, balances, history, conf, xfer, nConf, nXfer>>

\* lines 131-132
BuyHistory(b) ==
  /\ got' = NoAnswer
  /\ UNCHANGED chain
  /\ buy[b].pc = "history"
  /\ history' = Append1(history,
                  Entry("sale_created", buy[b].saleId, buy[b].tokenId,
                        buy[b].buyer, buy[b].seller, buy[b].amount))
  /\ BuyRespond(b, BuyReq(buy[b].tokenId, buy[b].buyer, buy[b].amount), 200,
       [ok |-> TRUE, saleId |-> buy[b].saleId,
                         cost |-> buy[b].cost, receiver |-> buy[b].seller])
  /\ UNCHANGED <<tokens, sales, balances, conf, xfer, nConf, nXfer>>

(***************************************************************************)
(* POST /api/sales/:saleId/confirm (src/server.js:145-240).                *)
(* Awaits: the sale get, the getTransaction query, the getTransactions     *)
(* query, the pending_check update, and the six store calls of finalize.   *)
(* The fields of a sale other than status and txHash never change once the *)
(* sale is written, so the handler's copy `sale` is read from the store.   *)
(***************************************************************************)

ConfReq(saleId, txHash) == [saleId |-> saleId, txHash |-> txHash]

ConfRespond(r, req, code, body) ==
  /\ out' = Response("confirm", r, req, code, body)
  /\ conf' = [conf EXCEPT ![r] = IdleConf]

\* A variant of alreadyConfirmed that lets a request with a hash through.
alreadyConfirmedUnlessHash(sale, txHash) ==
  sale.status = "confirmed" /\ txHash = NoHash

\* line 152
alreadyConfirmed(sale, txHash) == sale.status = "confirmed"

\* lines 147-152, and 184 / 205: which query goes out next.
ConfirmRead(r, saleId, txHash) ==
  /\ got' = NoAnswer
  /\ UNCHANGED chain
  /\ conf[r].pc = "idle"
  /\ IF ~sales[saleId].exists
     THEN /\ ConfRespond(r, ConfReq(saleId, txHash), 404, [error |-> "sale_not_found"])
          /\ UNCHANGED nConf
     ELSE IF alreadyConfirmed(sales[saleId], txHash)
     THEN /\ ConfRespond(r, ConfReq(saleId, txHash), 200,
                          [ok |-> TRUE, message |-> "already_confirmed"])
          /\ UNCHANGED nConf
     ELSE /\ nConf < MaxConfirms
          /\ nConf' = nConf + 1
          /\ conf' = [conf EXCEPT ![r] =
                        [IdleConf EXCEPT !.pc = IF txHash # NoHash THEN "lookup" ELSE "scan",
                                         !.inTry = (txHash # NoHash),
                                         !.saleId = saleId, !.txHash = txHash]]
          /\ out' = NoResponse
  /\ UNCHANGED <<tokens, sales, balances, history, buy, xfer, nXfer>>

\* A variant of ConfirmLookup that marks the sale pending_check on a mismatch.
ConfirmLookupMarking(r) ==
  /\ conf[r].pc = "lookup"
  /\ UNCHANGED chain
  /\ \/ /\ got' = LookupFailed
        /\ conf' = [conf EXCEPT ![r].pc = "scan", ![r].inTry = FALSE]
        /\ out' = NoResponse
        /\ UNCHANGED sales
     \/ \E tx \in chain.txs :
          LET sale == sales[conf[r].saleId]
              v == DirectCheck(tx, sale.cost, sale.buyer)
          IN  /\ got' = LookupTx(tx)
              /\ IF v.accept
                 THEN /\ conf' = [conf EXCEPT ![r].pc = "fin_sale",
                                              ![r].foundHash = conf[r].txHash]
                      /\ out' = NoResponse
                      /\ UNCHANGED sales
                 ELSE /\ ConfRespond(r, ConfReq(conf[r].saleId, conf[r].txHash), 400,
                                     [ok |-> FALSE, reason |-> "tx_mismatch",
                                      foundAmount |-> v.foundAmount,
                                      sender |-> v.sender])
                      /\ sales' = [sales EXCEPT ![conf[r].saleId].status = "pending_check"]
  /\ UNCHANGED <<tokens, balances, history, buy, xfer, nConf, nXfer>>

\* lines 187-201: the getTransaction answer: nothing usable, or a transaction.
ConfirmLookup(r) ==
  /\ conf[r].pc = "lookup"
  /\ UNCHANGED chain
  /\ \/ /\ got' = LookupFailed
        /\ conf' = [conf EXCEPT ![r].pc = "scan", ![r].inTry = FALSE]
        /\ out' = NoResponse
     \/ \E tx \in chain.txs :
          LET sale == sales[conf[r].saleId]
              v == DirectCheck(tx, sale.cost, sale.buyer)
          IN  /\ got' = LookupTx(tx)
              /\ IF v.accept
                 THEN /\ conf' = [conf EXCEPT ![r].pc = "fin_sale",
                                              ![r].foundHash = conf[r].txHash]
                      /\ out' = NoResponse
                 ELSE ConfRespond(r, ConfReq(conf[r].saleId, conf[r].txHash), 400,
                                  [ok |-> FALSE, reason |-> "tx_mismatch",
                                   foundAmount |-> v.foundAmount,
                                   sender |-> v.sender])
  /\ UNCHANGED <<tokens, sales, balances, history, buy, xfer, nConf, nXfer>>

\* lines 206-235: the getTransactions answer: unavailable, or a list.
ConfirmScan(r) ==
  /\ conf[r].pc = "scan"
  /\ UNCHANGED chain
  /\ \/ /\ got' = ScanUnavailable
        /\ conf' = [conf EXCEPT ![r].pc = "mark_unavailable"]
     \/ \E txs \in ListsUpTo(chain.recent, MaxList), now \in Clock :
          LET sale == sales[conf[r].saleId]
              m == ScanMatch(txs, sale.cost, sale.buyer, now)
          IN  /\ got' = ScanTxs(txs, now)
              /\ IF m = 0
                 THEN conf' = [conf EXCEPT ![r].pc = "mark_not_found"]
                 ELSE conf' = [conf EXCEPT ![r].pc = "fin_sale",
                                           ![r].foundHash = txs[m].id]
  /\ out' = NoResponse
  /\ UNCHANGED <<tokens, sales, balances, history, buy, xfer, nConf, nXfer>>

\* A variant of softReason that reports not_found in both cases.
softReasonSame(pc) == "not_found"

\* lines 209 and 232
softReason(pc) == IF pc = "mark_unavailable" THEN "txs_unavailable" ELSE "not_found"

\* lines 208-209 and 231-232
ConfirmMarkPending(r) ==
  /\ got' = NoAnswer
  /\ UNCHANGED chain
  /\ conf[r].pc \in {"mark_unavailable", "mark_not_found"}
  /\ sales' = [sales EXCEPT ![conf[r].saleId].status = "pending_check"]
  /\ ConfRespond(r, ConfReq(conf[r].saleId, conf[r].txHash), 200,
       [ok |-> FALSE,
        reason |-> softReason(conf[r].pc)])
  /\ UNCHANGED <<tokens, balances, history, buy, xfer, nConf, nXfer>>

\* line 155
FinalizeSale(r) ==
  /\ got' = NoAnswer
  /\ UNCHANGED chain
  /\ conf[r].pc = "fin_sale"
  /\ sales' = [sales EXCEPT ![conf[r].saleId].status = "confirmed",
                            ![conf[r].saleId].txHash = conf[r].foundHash]
  /\ conf' = [conf EXCEPT ![r].pc = "fin_token_get"]
  /\ out' = NoResponse
  /\ UNCHANGED <<tokens, balances, history, buy, xfer, nConf, nXfer>>

\* lines 157-159
FinalizeTokenGet(r) ==
  /\ got' = NoAnswer
  /\ UNCHANGED chain
  /\ conf[r].pc = "fin_token_get"
  /\ LET token == tokens[sales[conf[r].saleId].tokenId]
     IN  conf' = [conf EXCEPT ![r].pc = IF token.exists THEN "fin_token_update"
                                        ELSE "fin_balance_get",
                              ![r].token = token]
  /\ out' = NoResponse
  /\ UNCHANGED <<tokens, sales, balances, history, buy, xfer, nConf, nXfer>>

Max(a, b) == IF a >= b THEN a ELSE b

\* lines 160-171: the token as finalize's update leaves it, computed from
\* the document `token` read at line 158.
applyPurchase(doc, token, amountTokens) ==
  IF token.type = "listing"
  THEN [doc EXCEPT !.remainingSupply = Max(0, token.remainingSupply - amountTokens)]
  ELSE [doc EXCEPT
          !.supplyIssued = token.supplyIssued + amountTokens,
          !.dynamicPrice =
             LET oldPrice == IF token.dynamicPrice # Zero THEN token.dynamicPrice
                             ELSE DefaultPrice
             \* oldPrice * (1 + 0.005 * amountTokens), as oldPrice *
             \* (200 + amountTokens) / 200, then toFixed(9).
             IN  DivRound200(MulInt(oldPrice, 200 + amountTokens))]

\* lines 163 and 170
FinalizeTokenUpdate(r) ==
  /\ got' = NoAnswer
  /\ UNCHANGED chain
  /\ conf[r].pc = "fin_token_update"
  /\ LET sale == sales[conf[r].saleId]
     IN  tokens' = [tokens EXCEPT ![sale.tokenId] =
                      applyPurchase(@, conf[r].token, sale.amountTokens)]
  /\ conf' = [conf EXCEPT ![r].pc = "fin_balance_get", ![r].token = NoToken]
  /\ out' = NoResponse
  /\ UNCHANGED <<sales, balances, history, buy, xfer, nConf, nXfer>>

\* lines 174-176
FinalizeBalanceGet(r) ==
  /\ got' = NoAnswer
  /\ UNCHANGED chain
  /\ conf[r].pc = "fin_balance_get"
  /\ LET sale == sales[conf[r].saleId]
         doc == balances[<<sale.tokenId, sale.buyer>>]
     IN  conf' = [conf EXCEPT ![r].pc = "fin_balance_set",
                              ![r].token = NoToken,
                              ![r].prev = IF doc.exists THEN doc.amount ELSE 0]
  /\ out' = NoResponse
  /\ UNCHANGED <<tokens, sales, balances, history, buy, xfer, nConf, nXfer>>

\* A variant of FinalizeBalanceSet that adds to the amount stored now.
FinalizeBalanceSetAtomic(r) ==
  /\ got' = NoAnswer
  /\ UNCHANGED chain
  /\ conf[r].pc = "fin_balance_set"
  /\ LET sale == sales[conf[r].saleId]
     IN  balances' = [balances EXCEPT ![<<sale.tokenId, sale.buyer>>] =
                        [exists |-> TRUE, amount |-> (IF @.exists THEN @.amount ELSE 0) + sale.amountTokens]]
  /\ conf' = [conf EXCEPT ![r].pc = "fin_history", ![r].prev = 0]
  /\ out' = NoResponse
  /\ UNCHANGED <<tokens, sales, history, buy, xfer, nConf, nXfer>>

\* line 177
FinalizeBalanceSet(r) ==
  /\ got' = NoAnswer
  /\ UNCHANGED chain
  /\ conf[r].pc = "fin_balance_set"
  /\ LET sale == sales[conf[r].saleId]
     IN  balances' = [balances EXCEPT ![<<sale.tokenId, sale.buyer>>] =
                        [exists |-> TRUE, amount |-> conf[r].prev + sale.amountTokens]]
  /\ conf' = [conf EXCEPT ![r].pc = "fin_history", ![r].prev = 0]
  /\ out' = NoResponse
  /\ UNCHANGED <<tokens, sales, history, buy, xfer, nConf, nXfer>>

\* lines 179-180, and the res.json of line 198 or 235
FinalizeHistory(r) ==
  /\ got' = NoAnswer
  /\ UNCHANGED chain
  /\ conf[r].pc = "fin_history"
  /\ LET sale == sales[conf[r].saleId]
     IN  history' = Append1(history,
                      Entry("buy_confirmed", conf[r].saleId, sale.tokenId,
                            sale.buyer, sale.seller, sale.amountTokens))
  /\ ConfRespond(r, ConfReq(conf[r].saleId, conf[r].txHash), 200,
                 [ok |-> TRUE, message |-> "sale_confirmed"])
  /\ UNCHANGED <<tokens, sales, balances, buy, xfer, nConf, nXfer>>

\* The store call the handler is waiting for rejects: nothing is written
\* and the await throws.  Inside the try block of lines 185-201 (finalize
\* called at line 198) the catch of line 201 logs the error and the handler
\* goes on to the scan of line 205; anywhere else the catch of lines 236-239
\* answers 500 server_error.
StoreFails(r) ==
  /\ got' = NoAnswer
  /\ UNCHANGED chain
  /\ conf[r].pc \in {"mark_unavailable", "mark_not_found", "fin_sale",
                     "fin_token_get", "fin_token_update", "fin_balance_get",
                     "fin_balance_set", "fin_history"}
  /\ IF conf[r].inTry
     THEN /\ conf' = [conf EXCEPT ![r] =
                        [IdleConf EXCEPT !.pc = "scan", !.saleId = conf[r].saleId,
                                         !.txHash = conf[r].txHash]]
          /\ out' = NoResponse
     ELSE ConfRespond(r, ConfReq(conf[r].saleId, conf[r].txHash), 500,
                      [error |-> "server_error"])
  /\ UNCHANGED <<tokens, sales, balances, history, buy, xfer, nConf, nXfer>>

(***************************************************************************)
(* POST /api/transfer (src/server.js:247-268).                             *)
(* Awaits: the from get, the from set, the to get, the to set, the history *)
(* set.                                                                    *)
(***************************************************************************)

XferReq(tokenId, from, to, amount) ==
  [tokenId |-> tokenId, from |-> from, to |-> to, amount |-> amount]

XferRespond(x, req, code, body) ==
  /\ out' = Response("transfer", x, req, code, body)
  /\ xfer' = [xfer EXCEPT ![x] = IdleXfer]

haveOf(doc) == IF doc.exists THEN doc.amount ELSE 0

\* A variant of insufficient that lets an overdraft of one through.
insufficientByTwo(have, amt) == have + 1 < amt

\* line 257
insufficient(have, amt) == have < amt

\* lines 249-257
TransferRead(x, tokenId, from, to, amount) ==
  /\ got' = NoAnswer
  /\ UNCHANGED chain
  /\ xfer[x].pc = "idle"
  /\ LET have == haveOf(balances[<<tokenId, from>>])
     IN  IF from = NoAddr \/ to = NoAddr \/ amount = 0
         THEN XferRespond(x, XferReq(tokenId, from, to, amount), 400, [error |-> "missing"]) /\ UNCHANGED nXfer
         ELSE IF amount <= 0
         THEN XferRespond(x, XferReq(tokenId, from, to, amount), 400, [error |-> "bad_amount"]) /\ UNCHANGED nXfer
         ELSE IF insufficient(have, amount)
         THEN XferRespond(x, XferReq(tokenId, from, to, amount), 400, [error |-> "insufficient"]) /\ UNCHANGED nXfer
         ELSE /\ nXfer < MaxTransfers
              /\ nXfer' = nXfer + 1
              /\ xfer' = [xfer EXCEPT ![x] =
                            [IdleXfer EXCEPT !.pc = "from_set", !.tokenId = tokenId,
                                             !.from = from, !.to = to,
                                             !.amt = amount, !.have = have]]
              /\ out' = NoResponse
  /\ UNCHANGED <<tokens, sales, balances, history, buy, conf, nConf>>

\* line 258
TransferFromSet(x) ==
  /\ got' = NoAnswer
  /\ UNCHANGED chain
  /\ xfer[x].pc = "from_set"
  /\ balances' = [balances EXCEPT ![<<xfer[x].tokenId, xfer[x].from>>] =
                    [exists |-> TRUE, amount |-> xfer[x].have - xfer[x].amt]]
  /\ xfer' = [xfer EXCEPT ![x].pc = "to_get", ![x].have = 0]
  /\ out' = NoResponse
  /\ UNCHANGED <<tokens, sales, history, buy, conf, nConf, nXfer>>

\* lines 259-260
TransferToGet(x) ==
  /\ got' = NoAnswer
  /\ UNCHANGED chain
  /\ xfer[x].pc = "to_get"
  /\ xfer' = [xfer EXCEPT ![x].pc = "to_set",
                          ![x].prev = haveOf(balances[<<xfer[x].tokenId, xfer[x].to>>])]
  /\ out' = NoResponse
  /\ UNCHANGED <<tokens, sales, balances, history, buy, conf, nConf, nXfer>>

\* A variant of TransferToSet that stores the transferred amount alone.
TransferToSetOverwrite(x) ==
  /\ got' = NoAnswer
  /\ UNCHANGED chain
  /\ xfer[x].pc = "to_set"
  /\ balances' = [balances EXCEPT ![<<xfer[x].tokenId, xfer[x].to>>] =
                    [exists |-> TRUE, amount |-> xfer[x].amt]]
  /\ xfer' = [xfer EXCEPT ![x].pc = "history", ![x].prev = 0]
  /\ out' = NoResponse
  /\ UNCHANGED <<tokens, sales, history, buy, conf, nConf, nXfer>>

\* line 261
TransferToSet(x) ==
  /\ got' = NoAnswer
  /\ UNCHANGED chain
  /\ xfer[x].pc = "to_set"
  /\ balances' = [balances EXCEPT ![<<xfer[x].tokenId, xfer[x].to>>] =
                    [exists |-> TRUE, amount |-> xfer[x].prev + xfer[x].amt]]
  /\ xfer' = [xfer EXCEPT ![x].pc = "history", ![x].prev = 0]
  /\ out' = NoResponse
  /\ UNCHANGED <<tokens, sales, history, buy, conf, nConf, nXfer>>

\* lines 262-263
TransferHistory(x) ==
  /\ got' = NoAnswer
  /\ UNCHANGED chain
  /\ xfer[x].pc = "history"
  /\ history' = Append1(history,
                  Entry("transfer", 0, xfer[x].tokenId, xfer[x].from,
                        xfer[x].to, xfer[x].amt))
  /\ XferRespond(x, XferReq(xfer[x].tokenId, xfer[x].from, xfer[x].to, xfer[x].amt),
                 200, [ok |-> TRUE])
  /\ UNCHANGED <<tokens, sales, balances, buy, conf, nConf, nXfer>>

(***************************************************************************)
(* The server: every request of every slot, interleaved at the awaits.     *)
(***************************************************************************)

Create ==
  \E body \in CreateBodies :
    CreateToken(body.type, body.named, body.owner, body.totalSupply,
                body.pricePerToken, body.dynamicPrice)

BuyStart ==
  \E b \in BuySlots, tokenId \in TokenIds, buyer \in Buyers \cup {NoAddr},
     amountTokens \in AmountInputs :
    BuyRead(b, tokenId, buyer, amountTokens)

\* Slots only name the requests in flight: a request takes the first free one.
FirstFree(r) == conf[r].pc = "idle" /\ (r = "c2" => conf["c1"].pc # "idle")

ConfirmStart ==
  \E r \in ConfSlots, saleId \in SaleIds, txHash \in HashInputs :
    FirstFree(r) /\ ConfirmRead(r, saleId, txHash)

\* The bodies POST /api/transfer is called with: every transfer between the
\* holders, and bodies that miss a field or carry no positive amount.
TransferBodies ==
  {XferReq(t, from, to, amount) :
     t \in TokenIds, from \in Holders, to \in Holders, amount \in 1..MaxAmount}
  \cup {XferReq(t, NoAddr, Bob, 1) : t \in TokenIds}
  \cup {XferReq(t, Alice, NoAddr, 1) : t \in TokenIds}
  \cup {XferReq(t, Alice, Bob, amount) : t \in TokenIds, amount \in {-1, 0}}

TransferStart ==
  \E x \in XferSlots, body \in TransferBodies :
    TransferRead(x, body.tokenId, body.from, body.to, body.amount)

Quiet ==
  /\ \A b \in BuySlots : buy[b].pc = "idle"
  /\ \A r \in ConfSlots : conf[r].pc = "idle"
  /\ \A x \in XferSlots : xfer[x].pc = "idle"

\* The server.  Confirm requests arrive at any time and interleave at
\* every await; a create, buy or transfer request arrives when no other
\* request is in flight.
Next ==
  \/ Quiet /\ Create
  \/ Quiet /\ BuyStart
  \/ ConfirmStart
  \/ Quiet /\ TransferStart
  \/ \E b \in BuySlots : BuySaleSet(b)
  \/ \E b \in BuySlots : BuyHistory(b)
  \/ \E r \in ConfSlots : ConfirmLookup(r)
  \/ \E r \in ConfSlots : ConfirmScan(r)
  \/ \E r \in ConfSlots : ConfirmMarkPending(r)
  \/ \E r \in ConfSlots : FinalizeSale(r)
  \/ \E r \in ConfSlots : FinalizeTokenGet(r)
  \/ \E r \in ConfSlots : FinalizeTokenUpdate(r)
  \/ \E r \in ConfSlots : FinalizeBalanceGet(r)
  \/ \E r \in ConfSlots : FinalizeBalanceSet(r)
  \/ \E r \in ConfSlots : FinalizeHistory(r)
  \/ \E x \in XferSlots : TransferFromSet(x)
  \/ \E x \in XferSlots : TransferToGet(x)
  \/ \E x \in XferSlots : TransferToSet(x)
  \/ \E x \in XferSlots : TransferHistory(x)

Spec == Init /\ [][Next]_vars

\* The same server when no request arrives while another is being handled.
NextSeq ==
  \/ Quiet /\ Create
  \/ Quiet /\ BuyStart
  \/ Quiet /\ ConfirmStart
  \/ Quiet /\ TransferStart
  \/ \E b \in BuySlots : BuySaleSet(b)
  \/ \E b \in BuySlots : BuyHistory(b)
  \/ \E r \in ConfSlots : ConfirmLookup(r)
  \/ \E r \in ConfSlots : ConfirmScan(r)
  \/ \E r \in ConfSlots : ConfirmMarkPending(r)
  \/ \E r \in ConfSlots : FinalizeSale(r)
  \/ \E r \in ConfSlots : FinalizeTokenGet(r)
  \/ \E r \in ConfSlots : FinalizeTokenUpdate(r)
  \/ \E r \in ConfSlots : FinalizeBalanceGet(r)
  \/ \E r \in ConfSlots : FinalizeBalanceSet(r)
  \/ \E r \in ConfSlots : FinalizeHistory(r)
  \/ \E x \in XferSlots : TransferFromSet(x)
  \/ \E x \in XferSlots : TransferToGet(x)
  \/ \E x \in XferSlots : TransferToSet(x)
  \/ \E x \in XferSlots : TransferHistory(x)

SpecSeq == Init /\ [][NextSeq]_vars

(***************************************************************************)
(* Confirmation of one pending sale of a listing token against an explorer *)
(* that serves every shape of transaction the handler tells apart.         *)
(***************************************************************************)

\* getTransaction: every incoming value (missing, 0, "0", not a number, 10,
\* 9.999999, 9.9999999), with and without tx.value, from a hidden sender,
\* from Alice (in two spellings) and from Bob; and the raw values 2 * 10^12,
\* 10^12 and "1000000000001", from a hidden sender and from Bob.
WideTxs ==
  { Tx("h1", inValue, inSource, value, NoAddr, Now - 10) :
      inValue \in {Absent, JNum(Zero), JStr(Zero), JBad, JStr(Ten),
                   JNum(JustBelow), JNum(AtTolerance)},
      value \in {Absent, JStr(Ten)},
      inSource \in {NoAddr, Alice, Alice2, Bob} }
  \cup { Tx("h1", inValue, inSource, Absent, NoAddr, Now - 10) :
           inValue \in {JNum(TwoE12), JNum(OneE12), JStr(Add(OneE12, Units(1)))},
           inSource \in {NoAddr, Bob} }

\* getTransactions: payments of 10 from a hidden sender, from Alice and from
\* Bob, with no timestamp, with the timestamp 0, made a day and a second ago,
\* exactly a day ago and ten seconds ago; and payments of 9.999999 from a
\* hidden sender with the timestamp 0 and made ten seconds ago.  Alice's
\* payments have the hash h1, Bob's h2, the others none.
WideRecent ==
  { Tx(IF inSource = NoAddr THEN NoHash ELSE IF inSource = Bob THEN "h2" ELSE "h1",
       JStr(Ten), inSource, Absent, NoAddr, utime) :
      inSource \in {NoAddr, Alice2, Bob},
      utime \in {NoTime, 0, Now - Day - 1, Now - Day, Now - 10} }
  \cup { Tx(NoHash, JNum(JustBelow), NoAddr, Absent, NoAddr, utime) :
           utime \in {0, Now - 10} }

WideWorld == World(WideTxs, WideRecent)

\* Listing prices 5, 2.5 and 1500.
EvidencePrices == {Units(5), Num(0, 2, 500000000), Units(1500)}

\* The store after createToken of a listing token and createSale of
\* `amount` of it by Alice.
InitEvidence ==
  \E price \in EvidencePrices, amount \in 1..MaxAmount :
    LET token == NewToken("listing", Seller, MaxSupply + MaxAmount, JNum(price), Absent)
        request == [IdleBuy EXCEPT !.saleId = 1, !.tokenId = 1, !.buyer = Alice,
                                   !.seller = receiver(token), !.amount = amount,
                                   !.cost = quoteCost(token, amount)]
    IN  /\ tokens = [t \in TokenIds |-> IF t = 1 THEN token ELSE NoToken]
        /\ sales = [s \in SaleIds |-> IF s = 1 THEN NewSale(request) ELSE NoSale]
        /\ balances = [k \in BalanceKeys |-> NoBalance]
        /\ history = SetToBag({Entry("sale_created", 1, 1, Alice, receiver(token), amount)})
        /\ buy = [b \in BuySlots |-> IdleBuy]
        /\ conf = [r \in ConfSlots |-> IdleConf]
        /\ xfer = [x \in XferSlots |-> IdleXfer]
        /\ out = NoResponse
        /\ nConf = 0
        /\ nXfer = 0
        /\ chain = WideWorld
        /\ got = NoAnswer

NextEvidence ==
  \/ Quiet /\ ConfirmStart
  \/ \E r \in ConfSlots : ConfirmLookup(r)
  \/ \E r \in ConfSlots : ConfirmScan(r)
  \/ \E r \in ConfSlots : ConfirmMarkPending(r)
  \/ \E r \in ConfSlots : FinalizeSale(r)
  \/ \E r \in ConfSlots : FinalizeTokenGet(r)
  \/ \E r \in ConfSlots : FinalizeTokenUpdate(r)
  \/ \E r \in ConfSlots : FinalizeBalanceGet(r)
  \/ \E r \in ConfSlots : FinalizeBalanceSet(r)
  \/ \E r \in ConfSlots : FinalizeHistory(r)

SpecEvidence == InitEvidence /\ [][NextEvidence]_vars

(***************************************************************************)
(* Confirmation of one pending sale when calls of the document store can   *)
(* fail.                                                                   *)
(***************************************************************************)

\* The store after createToken of a listing token of price 5 and createSale
\* of `amount` of it by Alice; the explorer of Init.
InitFail ==
  \E amount \in 1..MaxAmount :
    LET token == NewToken("listing", Seller, MaxSupply + MaxAmount, JNum(Units(5)), Absent)
        request == [IdleBuy EXCEPT !.saleId = 1, !.tokenId = 1, !.buyer = Alice,
                                   !.seller = receiver(token), !.amount = amount,
                                   !.cost = quoteCost(token, amount)]
    IN  /\ tokens = [t \in TokenIds |-> IF t = 1 THEN token ELSE NoToken]
        /\ sales = [s \in SaleIds |-> IF s = 1 THEN NewSale(request) ELSE NoSale]
        /\ balances = [k \in BalanceKeys |-> NoBalance]
        /\ history = SetToBag({Entry("sale_created", 1, 1, Alice, receiver(token), amount)})
        /\ buy = [b \in BuySlots |-> IdleBuy]
        /\ conf = [r \in ConfSlots |-> IdleConf]
        /\ xfer = [x \in XferSlots |-> IdleXfer]
        /\ out = NoResponse
        /\ nConf = 0
        /\ nXfer = 0
        /\ chain = SmallWorld
        /\ got = NoAnswer

NextFail ==
  \/ Quiet /\ ConfirmStart
  \/ \E r \in ConfSlots : ConfirmLookup(r)
  \/ \E r \in ConfSlots : ConfirmScan(r)
  \/ \E r \in ConfSlots : ConfirmMarkPending(r)
  \/ \E r \in ConfSlots : FinalizeSale(r)
  \/ \E r \in ConfSlots : FinalizeTokenGet(r)
  \/ \E r \in ConfSlots : FinalizeTokenUpdate(r)
  \/ \E r \in ConfSlots : FinalizeBalanceGet(r)
  \/ \E r \in ConfSlots : FinalizeBalanceSet(r)
  \/ \E r \in ConfSlots : FinalizeHistory(r)
  \/ \E r \in ConfSlots : StoreFails(r)

SpecFail == InitFail /\ [][NextFail]_vars

(***************************************************************************)
(* Properties.                                                             *)
(***************************************************************************)

RECURSIVE SumAmounts(_)
SumAmounts(S) ==
  IF S = {} THEN 0
  ELSE LET s == CHOOSE x \in S : TRUE
       IN  sales[s].amountTokens + SumAmounts(S \ {s})

ConfirmedSales(t) ==
  {s \in SaleIds : sales[s].exists /\ sales[s].status = "confirmed" /\ sales[s].tokenId = t}

NoConfirmInFlight == \A r \in ConfSlots : conf[r].pc = "idle"

\* C1: whenever no confirmation is in flight, a listing token's
\* remainingSupply is its totalSupply minus the amounts of its confirmed
\* sales, and is not negative.
C1_SupplyAccounting ==
  NoConfirmInFlight =>
    \A t \in TokenIds :
      (tokens[t].exists /\ tokens[t].type = "listing") =>
        /\ tokens[t].remainingSupply = tokens[t].totalSupply - SumAmounts(ConfirmedSales(t))
        /\ tokens[t].remainingSupply >= 0

\* A confirm request for sale s arrives at slot r in this step: the slot
\* was idle, and now either handles s or has answered about s.
ConfirmArrives(r, s) ==
  /\ conf[r].pc = "idle"
  /\ \/ conf'[r].pc # "idle" /\ conf'[r].saleId = s
     \/ out'.op = "confirm" /\ out'.slot = r /\ out'.req.saleId = s

\* C2: a confirm request for a sale stored as confirmed is answered at once
\* with ok:true, already_confirmed; no chain query goes out (the request is
\* over, no answer was received) and no document changes, with or without
\* a txHash.
C2_ConfirmIdempotent ==
  [][\A r \in ConfSlots, s \in SaleIds :
       (ConfirmArrives(r, s) /\ sales[s].exists /\ sales[s].status = "confirmed") =>
         /\ out'.op = "confirm" /\ out'.slot = r /\ out'.code = 200
         /\ out'.body = [ok |-> TRUE, message |-> "already_confirmed"]
         /\ conf'[r].pc = "idle"
         /\ got' = NoAnswer
         /\ db' = db]_vars

C2_Witness ==
  /\ out.op = "confirm"
  /\ out.body = [ok |-> TRUE, message |-> "already_confirmed"]
  /\ out.req.txHash # NoHash
  /\ sales[out.req.saleId].status = "confirmed"

\* C3: a sale stored as confirmed is stored as confirmed in every later
\* state.
C3_ConfirmedTerminal ==
  [][\A s \in SaleIds :
       sales[s].status = "confirmed" => sales'[s].status = "confirmed"]_vars

\* The sale a confirm slot is handling.
saleOf(r) == sales[conf[r].saleId]

\* C4: when getTransaction returns a transaction, finalize is entered
\* exactly if its normalized value plus 10^-7 reaches the cost and its
\* sender is hidden or is the buyer up to case and non-alphanumeric
\* characters; otherwise the request ends with tx_mismatch.  A value of
\* 9.999999 against a cost of 10 ends with tx_mismatch.
C4_DirectAcceptance ==
  [][\A r \in ConfSlots :
       (conf[r].pc = "lookup" /\ got'.kind = "tx") =>
         LET tx == got'.tx
             enough == Geq(Add(txValue(tx), Nanos(100)), saleOf(r).cost)
             known == tx.in_source # NoAddr
             same == normalizeAddr(tx.in_source) = normalizeAddr(saleOf(r).buyer)
         IN  /\ (enough /\ (~known \/ same)) =>
                  conf'[r].pc = "fin_sale" /\ out' = NoResponse
             /\ ~(enough /\ (~known \/ same)) =>
                  /\ conf'[r].pc = "idle"
                  /\ out'.op = "confirm" /\ out'.slot = r
                  /\ out'.body.reason = "tx_mismatch"
             /\ (txValue(tx) = JustBelow /\ saleOf(r).cost = Ten) =>
                  /\ out'.op = "confirm" /\ out'.body.reason = "tx_mismatch"]_vars

\* A payment at the tolerance, 9.9999999 for a cost of 10, from Alice under
\* another spelling, has entered finalize.
C4_Witness ==
  \E r \in ConfSlots :
    /\ conf[r].pc = "fin_sale"
    /\ got.kind = "tx"
    /\ txValue(got.tx) = AtTolerance
    /\ got.tx.in_source = Alice2
    /\ saleOf(r).cost = Ten

\* C5: when the direct-hash path rejects the returned transaction, the
\* answer is 400, ok:false, tx_mismatch with the amount and the sender that
\* were observed, and no sale, token, balance or history document changes.
C5_MismatchFrame ==
  [][\A r \in ConfSlots :
       (/\ conf[r].pc = "lookup"
        /\ got'.kind = "tx"
        /\ ~DirectCheck(got'.tx, saleOf(r).cost, saleOf(r).buyer).accept) =>
         /\ out' = Response("confirm", r, ConfReq(conf[r].saleId, conf[r].txHash), 400,
                            [ok |-> FALSE, reason |-> "tx_mismatch",
                             foundAmount |-> txValue(got'.tx),
                             sender |-> got'.tx.in_source])
         /\ db' = db]_vars

\* A sale rejected for the sender (Bob paid 10) is still pending.
C5_Witness ==
  /\ out.op = "confirm"
  /\ out.code = 400
  /\ out.body.reason = "tx_mismatch"
  /\ out.body.sender = Bob
  /\ out.body.foundAmount = Ten
  /\ sales[out.req.saleId].status = "pending"

\* The transaction the scan of the list in `answer` matches for slot r.
matchedIn(answer, r) ==
  ScanMatch(answer.txs, saleOf(r).cost, saleOf(r).buyer, answer.now)

\* C7: the transaction the scan matches never has a timestamp
\* more than 24 hours before the current time.
C7_OldNeverMatched ==
  [][\A r \in ConfSlots :
       (conf[r].pc = "scan" /\ got'.kind = "txs" /\ matchedIn(got', r) # 0) =>
         LET tx == got'.txs[matchedIn(got', r)]
         IN  ~(tx.utime # NoTime /\ got'.now - tx.utime > Day)]_vars

\* What the scan does guarantee about age: the transaction it matches never
\* has a non-zero timestamp more than 24 hours before the current time, and
\* it reports no match only when every transaction is that old or pays too
\* little.
C7_NonZeroOldNeverMatched ==
  [][\A r \in ConfSlots :
       (conf[r].pc = "scan" /\ got'.kind = "txs") =>
         LET m == matchedIn(got', r)
             old(tx) == tx.utime # NoTime /\ tx.utime # 0 /\ got'.now - tx.utime > Day
             pays(tx) == Geq(Add(txValue(tx), Nanos(100)), saleOf(r).cost)
         IN  /\ m # 0 => ~old(got'.txs[m]) /\ conf'[r].pc = "fin_sale"
             /\ m = 0 => \A i \in 1..Len(got'.txs) :
                           old(got'.txs[i]) \/ ~pays(got'.txs[i])]_vars

\* A list whose first transaction pays the cost from the buyer but is a day
\* and a second old, and whose second one is recent: the second is matched.
C7_Witness ==
  \E r \in ConfSlots :
    /\ conf[r].pc = "fin_sale"
    /\ got.kind = "txs"
    /\ Len(got.txs) = 2
    /\ got.txs[1].utime = got.now - Day - 1
    /\ okAmount(txValue(got.txs[1]), saleOf(r).cost)
    /\ got.txs[1].in_source = Alice2
    /\ matchedIn(got, r) = 2

\* C6: on the scan path an unavailable chain client, and a scan that finds
\* no qualifying transaction, each lead to the sale being marked
\* pending_check and to a 200 answer with ok:false and the reason
\* txs_unavailable, respectively not_found; neither the scan nor the marking
\* writes a token, a balance or a history entry, and no other sale changes.
C6_SoftFailure ==
  [][\A r \in ConfSlots :
       /\ (conf[r].pc = "scan" /\ got'.kind = "unavailable") =>
            conf'[r].pc = "mark_unavailable" /\ db' = db
       /\ (/\ conf[r].pc = "scan"
           /\ got'.kind = "txs"
           /\ \A i \in 1..Len(got'.txs) :
                \/ Lt(Add(txValue(got'.txs[i]), Nanos(100)), saleOf(r).cost)
                \/ got'.txs[i].utime \notin {NoTime, 0}
                     /\ got'.now - got'.txs[i].utime > Day) =>
            conf'[r].pc = "mark_not_found" /\ db' = db
       /\ (conf[r].pc \in {"mark_unavailable", "mark_not_found"}) =>
            /\ sales' = [sales EXCEPT ![conf[r].saleId].status = "pending_check"]
            /\ out' = Response("confirm", r, ConfReq(conf[r].saleId, conf[r].txHash), 200,
                               [ok |-> FALSE,
                                reason |-> IF conf[r].pc = "mark_unavailable"
                                           THEN "txs_unavailable" ELSE "not_found"])
            /\ conf'[r].pc = "idle"
            /\ UNCHANGED <<tokens, balances, history>>]_vars

\* A sale marked pending_check because the chain client was unavailable.
C6_Witness ==
  /\ out.op = "confirm"
  /\ out.body = [ok |-> FALSE, reason |-> "txs_unavailable"]
  /\ sales[out.req.saleId].status = "pending_check"
  /\ ~\E e \in BagToSet(history) : e.type = "buy_confirmed"

\* The request a transfer slot has just received.
xferArrived(x) ==
  IF out'.op = "transfer"
  THEN out'.req
  ELSE XferReq(xfer'[x].tokenId, xfer'[x].from, xfer'[x].to, xfer'[x].amt)

\* C8: a transfer naming both parties whose amount exceeds the balance of
\* `from` (an absent balance counting as zero) is answered with the error
\* insufficient and changes no balance and no history entry.
C8_Insufficient ==
  [][\A x \in XferSlots :
       (/\ xfer[x].pc = "idle"
        /\ xfer'[x].pc # "idle" \/ (out'.op = "transfer" /\ out'.slot = x)
        /\ xferArrived(x).from # NoAddr
        /\ xferArrived(x).to # NoAddr
        /\ LET doc == balances[<<xferArrived(x).tokenId, xferArrived(x).from>>]
           IN  xferArrived(x).amount > (IF doc.exists THEN doc.amount ELSE 0)) =>
         /\ out'.op = "transfer"
         /\ out'.code = 400
         /\ out'.body = [error |-> "insufficient"]
         /\ xfer'[x].pc = "idle"
         /\ db' = db]_vars

\* Alice holds one token and is refused a transfer of two.
C8_Witness ==
  /\ out.op = "transfer"
  /\ out.body = [error |-> "insufficient"]
  /\ out.req.amount = 2
  /\ balances[<<out.req.tokenId, out.req.from>>].exists
  /\ balances[<<out.req.tokenId, out.req.from>>].amount = 1

\* C9: finalize's update of a user token sets dynamicPrice to the stored
\* dynamicPrice times (1 + 0.005 * a), rounded to 9 decimal places, and
\* supplyIssued to the stored supplyIssued plus a, a being the sale's amount.
C9_PriceUpdate ==
  [][\A r \in ConfSlots :
       (conf[r].pc = "fin_token_update" /\ tokens[saleOf(r).tokenId].type # "listing") =>
         LET t == saleOf(r).tokenId
             a == saleOf(r).amountTokens
         IN  /\ tokens'[t].dynamicPrice =
                  DivRound200(MulInt(tokens[t].dynamicPrice, 200 + a))
             /\ tokens'[t].supplyIssued = tokens[t].supplyIssued + a]_vars

\* What the update does guarantee: the formula of C9 for every user token
\* whose stored dynamicPrice is not zero.
C9_PriceUpdateOfNonZero ==
  [][\A r \in ConfSlots :
       (/\ conf[r].pc = "fin_token_update"
        /\ tokens[saleOf(r).tokenId].type # "listing"
        /\ tokens[saleOf(r).tokenId].dynamicPrice # Zero) =>
         LET t == saleOf(r).tokenId
             a == saleOf(r).amountTokens
         IN  /\ tokens'[t].dynamicPrice =
                  DivRound200(MulInt(tokens[t].dynamicPrice, 200 + a))
             /\ tokens'[t].supplyIssued = tokens[t].supplyIssued + a]_vars

\* The request a buy slot has just received.
buyArrived(b) ==
  IF out'.op = "buy"
  THEN out'.req
  ELSE BuyReq(buy'[b].tokenId, buy'[b].buyer, buy'[b].amount)

\* C10: no step of createSale changes a token or a balance.  A request for
\* an unknown token, a non-positive amount or more than a listing's
\* remaining supply is refused on arrival with nothing written.  The sale
\* write adds exactly one sale, pending, whose seller is the token's owner;
\* the history write adds exactly one sale_created entry.
C10_CreateSaleFrame ==
  [][\A b \in BuySlots :
       /\ (/\ buy[b].pc = "idle"
           /\ buy'[b].pc # "idle" \/ (out'.op = "buy" /\ out'.slot = b)) =>
            /\ db' = db
            /\ LET req == buyArrived(b)
                   token == tokens[req.tokenId]
               IN  (\/ ~token.exists
                    \/ req.amountTokens <= 0
                    \/ token.type = "listing" /\ token.remainingSupply < req.amountTokens) =>
                     /\ out'.op = "buy"
                     /\ out'.code \in {400, 404}
                     /\ buy'[b].pc = "idle"
       /\ (buy[b].pc = "sale_set" /\ buy'[b].pc # "sale_set") =>
            /\ UNCHANGED <<tokens, balances, history>>
            /\ \E s \in SaleIds :
                 /\ ~sales[s].exists
                 /\ sales'[s].exists
                 /\ sales'[s].status = "pending"
                 /\ sales'[s].seller = tokens[sales'[s].tokenId].owner
                 /\ \A u \in SaleIds \ {s} : sales'[u] = sales[u]
       /\ (buy[b].pc = "history" /\ buy'[b].pc # "history") =>
            /\ UNCHANGED <<tokens, balances, sales>>
            /\ \E e \in BagToSet(history') :
                 /\ e.type = "sale_created"
                 /\ history' = history (+) SetToBag({e})
            /\ out'.op = "buy" /\ out'.code = 200]_vars

\* A sale of a token owned by Seller has been created: it is pending and its
\* seller is Seller.
C10_Witness ==
  /\ out.op = "buy"
  /\ out.code = 200
  /\ sales[out.body.saleId].status = "pending"
  /\ sales[out.body.saleId].seller = Seller
  /\ tokens[out.req.tokenId].owner = Seller

\* C11: in every state every listing token has remainingSupply at most
\* totalSupply, and every user token has a dynamicPrice above zero.
C11_TokenInvariant ==
  \A t \in TokenIds :
    tokens[t].exists =>
      IF tokens[t].type = "listing"
      THEN tokens[t].remainingSupply <= tokens[t].totalSupply
      ELSE Gt(tokens[t].dynamicPrice, Zero)

\* The half of C11 about listings.
C11_RemainingAtMostTotal ==
  \A t \in TokenIds :
    (tokens[t].exists /\ tokens[t].type = "listing") =>
      tokens[t].remainingSupply <= tokens[t].totalSupply

\* C12: a raw incoming value above 10^12 is divided by 10^9 before the
\* comparison with the cost, and a value of at most 10^12 is compared as it
\* is: the lookup accepts exactly when the value so normalized, plus 10^-7,
\* reaches the cost (and the sender test passes), and a mismatch reports the
\* normalized value.  A raw 2 * 10^12 is compared, and reported, as 2000.
C12_RawValueScaled ==
  [][\A r \in ConfSlots :
       (/\ conf[r].pc = "lookup"
        /\ got'.kind = "tx"
        /\ got'.tx.in_value.kind \in {"num", "str"}
        /\ got'.tx.in_value.num # Zero) =>
         LET raw == got'.tx.in_value.num
             big == raw.g > 1000 \/ (raw.g = 1000 /\ (raw.u > 0 \/ raw.n > 0))
             val == IF big THEN [g |-> 0, u |-> raw.g, n |-> raw.u] ELSE raw
             senderOk == \/ got'.tx.in_source = NoAddr
                         \/ normalizeAddr(got'.tx.in_source) = normalizeAddr(saleOf(r).buyer)
             accepted == conf'[r].pc = "fin_sale"
         IN  /\ accepted <=> (Geq(Add(val, Nanos(100)), saleOf(r).cost) /\ senderOk)
             /\ ~accepted => out'.body.reason = "tx_mismatch" /\ out'.body.foundAmount = val
             /\ raw = Num(2000, 0, 0) =>
                  /\ accepted <=> (Leq(saleOf(r).cost, Units(2000)) /\ senderOk)
                  /\ ~accepted => out'.body.foundAmount = Units(2000)]_vars

\* A raw 2 * 10^12 from a hidden sender was offered for a sale of cost 3000
\* and refused as 2000.
C12_Witness ==
  /\ out.op = "confirm"
  /\ out.code = 400
  /\ out.body.reason = "tx_mismatch"
  /\ out.body.foundAmount = Units(2000)
  /\ got.kind = "tx"
  /\ got.tx.in_value = JNum(TwoE12)
  /\ got.tx.in_source = NoAddr
  /\ sales[out.req.saleId].cost = Units(3000)

\* C13: no step stores a larger remainingSupply in a listing token, or a
\* smaller supplyIssued in a user token, than the value stored before it.
C13_Monotone ==
  [][\A t \in TokenIds :
       tokens[t].exists =>
         /\ tokens'[t].exists
         /\ tokens[t].type = "listing" =>
              tokens'[t].remainingSupply <= tokens[t].remainingSupply
         /\ tokens[t].type # "listing" =>
              tokens'[t].supplyIssued >= tokens[t].supplyIssued]_vars

\* The sales created for token t, and the buy_confirmed entries of sale s.
SalesOf(t) == {s \in SaleIds : sales[s].exists /\ sales[s].tokenId = t}

\* The balance documents of token t, and the sum of the amounts in a set of
\* balance documents (an absent one counting as zero).
KeysOf(t) == {k \in BalanceKeys : k[1] = t}

RECURSIVE SumBalances(_)
SumBalances(K) ==
  IF K = {} THEN 0
  ELSE LET k == CHOOSE x \in K : TRUE
       IN  (IF balances[k].exists THEN balances[k].amount ELSE 0) + SumBalances(K \ {k})

confirmedEntries(s) ==
  {e \in BagToSet(history) : e.type = "buy_confirmed" /\ e.saleId = s}

\* C14: finalize is applied at most once per sale.  History holds at most
\* one buy_confirmed entry per sale; and, when no request is in flight and
\* no transfer has moved tokens, what was credited to the buyers, taken from
\* a listing's supply or added to supplyIssued is at most the sum of the
\* amounts of the token's sales.
C14_FinalizeOnce ==
  /\ \A s \in SaleIds :
       /\ Cardinality(confirmedEntries(s)) <= 1
       /\ \A e \in confirmedEntries(s) : CopiesIn(e, history) = 1
  /\ (Quiet /\ nXfer = 0) =>
       \A t \in TokenIds :
         tokens[t].exists =>
           /\ SumAmounts(SalesOf(t)) >=
                SumBalances(KeysOf(t))
           /\ tokens[t].type = "listing" =>
                tokens[t].totalSupply - tokens[t].remainingSupply
                  <= SumAmounts(SalesOf(t))
           /\ tokens[t].type # "listing" =>
                tokens[t].supplyIssued
                  <= SumAmounts(SalesOf(t))

\* C15: no two distinct sales are confirmed with the same transaction hash.
C15_HashUsedOnce ==
  \A s, u \in SaleIds :
    (/\ s # u
     /\ sales[s].exists /\ sales[s].status = "confirmed"
     /\ sales[u].exists /\ sales[u].status = "confirmed"
     /\ sales[s].txHash # NoHash) =>
      sales[s].txHash # sales[u].txHash

\* Transaction tx pays the cost of the sale of slot r and was made within
\* the 24 hours before `now`.
paysInTime(tx, r, now) ==
  /\ Geq(Add(txValue(tx), Nanos(100)), saleOf(r).cost)
  /\ tx.utime # NoTime
  /\ now - tx.utime <= Day

\* C16: when the scanned list holds a payment in time from a sender other
\* than the buyer and a payment in time from the buyer, the transaction
\* matched is one from the buyer; a payment in time from a hidden sender is
\* enough for a match.
C16_SenderPreferred ==
  [][\A r \in ConfSlots :
       (conf[r].pc = "scan" /\ got'.kind = "txs") =>
         LET txs == got'.txs
             fromBuyer(tx) ==
               /\ tx.in_source # NoAddr
               /\ normalizeAddr(tx.in_source) = normalizeAddr(saleOf(r).buyer)
             fromOther(tx) ==
               /\ tx.in_source # NoAddr
               /\ normalizeAddr(tx.in_source) # normalizeAddr(saleOf(r).buyer)
         IN  /\ (/\ \E i \in 1..Len(txs) : paysInTime(txs[i], r, got'.now) /\ fromOther(txs[i])
                 /\ \E j \in 1..Len(txs) : paysInTime(txs[j], r, got'.now) /\ fromBuyer(txs[j])) =>
                  /\ conf'[r].pc = "fin_sale"
                  /\ \E j \in 1..Len(txs) :
                       /\ paysInTime(txs[j], r, got'.now)
                       /\ fromBuyer(txs[j])
                       /\ conf'[r].foundHash = txs[j].id
             /\ (\E i \in 1..Len(txs) :
                   paysInTime(txs[i], r, got'.now) /\ txs[i].in_source = NoAddr) =>
                  conf'[r].pc = "fin_sale"]_vars

\* C17: a request that carries a txHash issues the scan query exactly when
\* the lookup failed: the step that answers the lookup goes on to the scan
\* if and only if no transaction came back, and no other step of such a
\* request leads to the scan; with a transaction returned the request
\* enters finalize or answers tx_mismatch.
C17_ScanOnlyAfterLookupFailure ==
  [][\A r \in ConfSlots :
       /\ conf[r].pc = "lookup" =>
            /\ conf'[r].pc = "scan" <=> got'.kind = "lookup_failed"
            /\ got'.kind = "tx" =>
                 \/ conf'[r].pc = "fin_sale"
                 \/ /\ conf'[r].pc = "idle"
                    /\ out'.op = "confirm" /\ out'.code = 400
                    /\ out'.body.reason = "tx_mismatch"
       /\ (conf[r].txHash # NoHash /\ conf[r].pc # "scan" /\ conf'[r].pc = "scan") =>
            conf[r].pc = "lookup" /\ got'.kind = "lookup_failed"]_vars

\* A request with a txHash whose lookup failed is about to scan.
C17_Witness ==
  \E r \in ConfSlots :
    conf[r].pc = "scan" /\ conf[r].txHash # NoHash /\ got.kind = "lookup_failed"

\* The step of finalize that follows step pc.
nextOfFinalize(pc) ==
  CASE pc = "fin_sale" -> {"fin_token_get"}
    [] pc = "fin_token_get" -> {"fin_token_update", "fin_balance_get"}
    [] pc = "fin_token_update" -> {"fin_balance_get"}
    [] pc = "fin_balance_get" -> {"fin_balance_set"}
    [] pc = "fin_balance_set" -> {"fin_history"}
    [] OTHER -> {"idle"}

FinalizeSteps ==
  {"fin_sale", "fin_token_get", "fin_token_update", "fin_balance_get",
   "fin_balance_set", "fin_history"}

\* C18: finalize writes in the order sale, token, balance, history: only
\* its first step changes a sale, only the token update changes a token,
\* only the balance set changes a balance, only the last step appends to
\* history, and a step that succeeds is followed by the next one.  Nothing
\* is rolled back: a step at which the store fails changes no document, and
\* a sale that has been marked confirmed stays confirmed, whatever fails
\* afterwards.  A later request for it is answered already_confirmed and
\* writes nothing.
C18_NoRollback ==
  [][/\ \A r \in ConfSlots :
          (conf[r].pc \in FinalizeSteps /\ conf'[r] # conf[r]) =>
            \/ conf'[r].pc \in nextOfFinalize(conf[r].pc)
                 /\ (sales' # sales => conf[r].pc = "fin_sale")
                 /\ (tokens' # tokens => conf[r].pc = "fin_token_update")
                 /\ (balances' # balances => conf[r].pc = "fin_balance_set")
                 /\ (history' # history => conf[r].pc = "fin_history")
            \/ db' = db
     /\ \A s \in SaleIds :
          sales[s].status = "confirmed" =>
            /\ sales'[s].status = "confirmed"
            /\ \A r \in ConfSlots :
                 ConfirmArrives(r, s) =>
                   /\ out'.body = [ok |-> TRUE, message |-> "already_confirmed"]
                   /\ db' = db]_vars

\* What holds of failures on the scan path: while no request with a txHash
\* is being handled, a sale that is confirmed stays confirmed.
C18_ScanPathKeepsConfirmed ==
  [][\A s \in SaleIds :
       (/\ sales[s].status = "confirmed"
        /\ \A r \in ConfSlots : conf[r].txHash = NoHash) =>
         sales'[s].status = "confirmed"]_vars

\* C19: balances are written by unprotected read-modify-write.  The balance
\* set of finalize stores the amount it read before plus the sale's amount,
\* and the two sets of a transfer store the amounts they read before minus
\* and plus the transferred amount, whatever another request has stored in
\* between; so an update made in between is lost (C19_Witness).
C19_StaleWrite ==
  [][/\ \A r \in ConfSlots :
          (conf[r].pc = "fin_balance_set" /\ conf'[r].pc = "fin_history") =>
            balances' = [balances EXCEPT ![<<saleOf(r).tokenId, saleOf(r).buyer>>] =
                           [exists |-> TRUE,
                            amount |-> conf[r].prev + saleOf(r).amountTokens]]
     /\ \A x \in XferSlots :
          /\ (xfer[x].pc = "from_set" /\ xfer'[x].pc = "to_get") =>
               balances'[<<xfer[x].tokenId, xfer[x].from>>].amount =
                 xfer[x].have - xfer[x].amt
          /\ (xfer[x].pc = "to_set" /\ xfer'[x].pc = "history") =>
               balances'[<<xfer[x].tokenId, xfer[x].to>>].amount =
                 xfer[x].prev + xfer[x].amt]_vars

\* Two sales of one token to Alice have each been finalized once, by
\* overlapping requests, no transfer has run and no request is in flight:
\* Alice's balance is less than the two amounts together.
C19_Witness ==
  /\ Quiet
  /\ nXfer = 0
  /\ sales[1].exists /\ sales[2].exists
  /\ sales[1].tokenId = sales[2].tokenId
  /\ sales[1].buyer = sales[2].buyer
  /\ \A s \in {1, 2} :
       /\ sales[s].status = "confirmed"
       /\ Cardinality(confirmedEntries(s)) = 1
       /\ \A e \in confirmedEntries(s) : CopiesIn(e, history) = 1
  /\ balances[<<sales[1].tokenId, sales[1].buyer>>].exists
  /\ balances[<<sales[1].tokenId, sales[1].buyer>>].amount
       < sales[1].amountTokens + sales[2].amountTokens

\* A confirmation credited Alice while a transfer out of her balance was
\* between its read and its write: the transfer's write discarded the
\* credit, and the balances of the token add up to less than what was sold.
C19_WitnessTransfer ==
  /\ Quiet
  /\ nXfer = 1
  /\ \A s \in SaleIds :
       sales[s].exists =>
         /\ sales[s].status = "confirmed"
         /\ Cardinality(confirmedEntries(s)) = 1
         /\ \A e \in confirmedEntries(s) : CopiesIn(e, history) = 1
  /\ \E e \in BagToSet(history) : e.type = "transfer" /\ e.party # e.other
  /\ \E t \in TokenIds :
       tokens[t].exists /\ SumBalances(KeysOf(t)) < SumAmounts(SalesOf(t))

\* The balance document of `who` for the token of the transfer in slot x.
keyOf(x, who) == <<xfer[x].tokenId, who>>

\* C20: a transfer that no other request interleaves with.  Its debit
\* lowers the stored balance of `from` by exactly the amount and its credit
\* raises the stored balance of `to` by exactly the amount, creating the
\* document if absent; its last step appends one transfer entry and answers
\* ok; no step changes any other balance, a token or a sale.  So whenever
\* no request is in flight the balances of a token add up to what its
\* confirmed sales credited, and a transfer from an address to itself
\* leaves the balance as it was.
C20_TransferFrame ==
  [][/\ \A x \in XferSlots :
          /\ (xfer[x].pc = "idle" /\ xfer'[x].pc # "idle") =>
               db' = db /\ xfer'[x].pc = "from_set"
          /\ xfer[x].pc = "from_set" =>
               /\ balances' = [balances EXCEPT ![keyOf(x, xfer[x].from)] =
                                 [exists |-> TRUE,
                                  amount |-> balances[keyOf(x, xfer[x].from)].amount
                                               - xfer[x].amt]]
               /\ balances[keyOf(x, xfer[x].from)].exists
               /\ balances'[keyOf(x, xfer[x].from)].amount >= 0
               /\ UNCHANGED <<tokens, sales, history>>
               /\ xfer'[x].pc = "to_get"
          /\ xfer[x].pc = "to_get" =>
               db' = db /\ xfer'[x].pc = "to_set"
          /\ xfer[x].pc = "to_set" =>
               /\ balances' = [balances EXCEPT ![keyOf(x, xfer[x].to)] =
                                 [exists |-> TRUE,
                                  amount |-> (IF balances[keyOf(x, xfer[x].to)].exists
                                              THEN balances[keyOf(x, xfer[x].to)].amount
                                              ELSE 0) + xfer[x].amt]]
               /\ UNCHANGED <<tokens, sales, history>>
               /\ xfer'[x].pc = "history"
          /\ xfer[x].pc = "history" =>
               /\ history' = history (+) SetToBag({Entry("transfer", 0, xfer[x].tokenId,
                                                        xfer[x].from, xfer[x].to,
                                                        xfer[x].amt)})
               /\ UNCHANGED <<tokens, sales, balances>>
               /\ out' = Response("transfer", x,
                                  XferReq(xfer[x].tokenId, xfer[x].from, xfer[x].to,
                                          xfer[x].amt),
                                  200, [ok |-> TRUE])
               /\ xfer'[x].pc = "idle"
     /\ Quiet =>
          \A t \in TokenIds : SumBalances(KeysOf(t)) = SumAmounts(ConfirmedSales(t))
     /\ (Quiet /\ nXfer = 0) =>
          \A t \in TokenIds :
            haveOf(balances[<<t, Alice>>]) = SumAmounts(ConfirmedSales(t))]_vars

\* Alice, holding tokens, has transferred some to Bob, who held none: Bob
\* now has a balance document with the amount, and Alice's is the rest.
C20_Witness ==
  /\ out.op = "transfer"
  /\ out.code = 200
  /\ out.req.from = Alice
  /\ out.req.to = Bob
  /\ balances[<<out.req.tokenId, Bob>>] = [exists |-> TRUE, amount |-> out.req.amount]
  /\ balances[<<out.req.tokenId, Alice>>].exists
  /\ balances[<<out.req.tokenId, Alice>>].amount + out.req.amount
       = SumAmounts(ConfirmedSales(out.req.tokenId))

\* Alice has transferred one of her two tokens to herself and still has two.
C20_WitnessSelf ==
  /\ out.op = "transfer"
  /\ out.code = 200
  /\ out.req.from = Alice
  /\ out.req.to = Alice
  /\ out.req.amount = 1
  /\ balances[<<out.req.tokenId, Alice>>] = [exists |-> TRUE, amount |-> 2]
  /\ SumAmounts(ConfirmedSales(out.req.tokenId)) = 2

====
